---- MODULE Spec2Model ----
(***************************************************************************)
(* Type checking of function parameters (sway-core,                        *)
(* semantic_analysis/ast_node/declaration/function/function_parameter.rs). *)
(*                                                                         *)
(* The state is the global type engine (a table of TypeInfo indexed by     *)
(* TypeId), the namespace the parameters are bound in, the latest call     *)
(* (operation and arguments) and what it returned.  The three checkers,    *)
(* copy_types and eq are operators computed as the source computes them;   *)
(* the type engine, the resolver, the immutability conversion and the      *)
(* symbol table live outside this file and follow their written contract.  *)
(***************************************************************************)
EXTENDS Integers, Sequences, FiniteSets, TLC

VARIABLES types, namespace, call, result, lhs, rhs, eq_result

vars == <<types, namespace, call, result, lhs, rhs, eq_result>>

(* ------------------------------ bounds -------------------------------- *)

\* The resolver may hand back up to MaxWarnings warnings with its result.
MaxWarnings == 1

Names == {"x", "self"}

\* Spans are opaque source locations: where a parameter's qualifier and its
\* type expression are written.
MutabilitySpanOf(name) == IF name = "self" THEN "m_self" ELSE "m_x"

TypeSpanOf(name) == IF name = "self" THEN "t_self" ELSE "t_x"

Spans == {MutabilitySpanOf(n) : n \in Names} \cup {TypeSpanOf(n) : n \in Names}

\* Type expressions a parameter may be written with: a type parameter, the
\* self-type placeholder, a name nothing declares.  The parameter named self
\* is the one written with the self type.
WrittenTypes == {"T", "SelfType", "Custom_Undef"}

WrittenTypesOf(name) ==
    IF name = "self" THEN {"SelfType"} ELSE WrittenTypes \ {"SelfType"}

\* Types the surrounding compiler interned before the parameters are checked:
\* the enclosing type, a primitive and the type parameter of the function.
InitTypes == <<"Struct_S", "u32", "T">>

TypeVariables == {"T"}

ConcreteTypes == {"Struct_S", "u32"}

\* Absent self-type binding of a resolution context.
NoSelf == 0

(* ---------------------------- type engine ----------------------------- *)

\* Position of ty in tbl (tbl holds ty).
IndexOf(tbl, ty) == CHOOSE i \in 1..Len(tbl) : tbl[i] = ty

\* A mutant: every call appends a fresh entry.
insert_type_no_dedup(tbl, ty) ==
    [types |-> Append(tbl, ty), id |-> Len(tbl) + 1]

\* intern(TypeInfo) -> TypeId: the existing handle of a structurally equal
\* entry, else a new handle at the end of the table.
insert_type(tbl, ty) ==
    IF \E i \in 1..Len(tbl) : tbl[i] = ty
    THEN [types |-> tbl, id |-> IndexOf(tbl, ty)]
    ELSE [types |-> Append(tbl, ty), id |-> Len(tbl) + 1]

look_up_type_id(tbl, id) == tbl[id]

(* ------------------------------ resolver ------------------------------ *)

ResolveError(kind) == [kind |-> kind, param_name |-> ""]

ResolverWarnings ==
    {[i \in 1..n |-> [kind |-> "ResolverWarning", param_name |-> ""]] :
        n \in 0..MaxWarnings}

\* resolve(as_written, context, policy): the self-type placeholder is
\* replaced by the bound self type, or is an error when none is bound; an
\* unknown name is an error; anything else is already resolved.  The policy
\* enforce decides about omitted type arguments, which no type written here
\* takes.
resolve_type_with_self(tbl, type_id, self_type, enforce, w) ==
    LET ty == look_up_type_id(tbl, type_id)
        fail(kind) == [value |-> <<>>, warnings |-> w,
                       errors |-> <<ResolveError(kind)>>]
        done(id) == [value |-> <<id>>, warnings |-> w, errors |-> <<>>]
    IN  CASE ty = "SelfType" ->
               IF self_type = NoSelf THEN fail("SelfOutsideImplementation")
               ELSE done(self_type)
          [] ty = "Custom_Undef" -> fail("UnknownType")
          [] OTHER -> done(type_id)

(* ----------------------- variable immutability ------------------------ *)

convert_to_variable_immutability(is_reference, is_mutable) ==
    IF is_reference THEN "RefMutable"
    ELSE IF is_mutable THEN "Mutable"
    ELSE "Immutable"

(* ----------------------------- namespace ------------------------------ *)

\* insert_symbol: the binding of name is the latest one inserted.
insert_symbol(ns, name, decl) == [ns EXCEPT ![name] = <<decl>>]

\* A mutant: the variable is declared with the type as written.
insert_into_namespace_as_written(ns, typed_parameter) ==
    insert_symbol(ns, typed_parameter.name,
        [name |-> typed_parameter.name,
         return_type |-> typed_parameter.type_id,
         mutability |-> convert_to_variable_immutability(
                            typed_parameter.is_reference,
                            typed_parameter.is_mutable),
         type_ascription |-> typed_parameter.initial_type_id,
         type_ascription_span |-> typed_parameter.type_span])

insert_into_namespace(ns, typed_parameter) ==
    insert_symbol(ns, typed_parameter.name,
        [name |-> typed_parameter.name,
         return_type |-> typed_parameter.type_id,
         mutability |-> convert_to_variable_immutability(
                            typed_parameter.is_reference,
                            typed_parameter.is_mutable),
         type_ascription |-> typed_parameter.type_id,
         type_ascription_span |-> typed_parameter.type_span])

(* ------------------------- TypedFunctionParameter --------------------- *)

TypedFunctionParameter(parameter, type_id, initial_type_id) ==
    [name |-> parameter.name,
     is_reference |-> parameter.is_reference,
     is_mutable |-> parameter.is_mutable,
     mutability_span |-> parameter.mutability_span,
     type_id |-> type_id,
     initial_type_id |-> initial_type_id,
     type_span |-> parameter.type_span]

\* A mutant: the reference qualifier takes part in the comparison.
eq_with_reference(tbl, self, other) ==
    /\ self.name = other.name
    /\ look_up_type_id(tbl, self.type_id) = look_up_type_id(tbl, other.type_id)
    /\ self.is_mutable = other.is_mutable
    /\ self.is_reference = other.is_reference

eq(tbl, self, other) ==
    /\ self.name = other.name
    /\ look_up_type_id(tbl, self.type_id) = look_up_type_id(tbl, other.type_id)
    /\ self.is_mutable = other.is_mutable

\* TypeId::update_type: the identity the mapping gives, or the same identity
\* when the mapping has no entry for it.
update_type(type_id, type_mapping, span) ==
    IF type_id \in DOMAIN type_mapping THEN type_mapping[type_id] ELSE type_id

\* A mutant: the as-written identity is rewritten along with the resolved one.
copy_types_both(self, type_mapping) ==
    [self EXCEPT !.type_id = update_type(self.type_id, type_mapping,
                                         self.type_span),
                 !.initial_type_id = update_type(self.initial_type_id,
                                                 type_mapping, self.type_span)]

\* A mutant: the as-written identity is the one rewritten.
copy_types_initial(self, type_mapping) ==
    [self EXCEPT !.initial_type_id = update_type(self.initial_type_id,
                                                 type_mapping, self.type_span)]

copy_types(self, type_mapping) ==
    [self EXCEPT !.type_id = update_type(self.type_id, type_mapping,
                                         self.type_span)]

MutableParameterNotSupported(name) ==
    [kind |-> "MutableParameterNotSupported", param_name |-> name]

\* A mutant: the fallback of a failed resolution is the type as written.
check_resolve_type_keeps_written(tbl, type_id, self_type, w) ==
    LET res == resolve_type_with_self(tbl, type_id, self_type, TRUE, w)
    IN  [type_id |-> IF res.value = <<>> THEN type_id ELSE res.value[1],
         types |-> tbl, warnings |-> res.warnings, errors |-> res.errors]

\* check!(resolve_type_with_self(..), insert_type(TypeInfo::ErrorRecovery),
\* warnings, errors): the diagnostics of the resolution are appended to the
\* (still empty) accumulators, and the value is the resolved type, or the
\* error-recovery type, interned then, when there is none.
check_resolve_type(tbl, type_id, self_type, w) ==
    LET res == resolve_type_with_self(tbl, type_id, self_type, TRUE, w)
        recovery == insert_type(tbl, "ErrorRecovery")
    IN  IF res.value = <<>>
        THEN [type_id |-> recovery.id, types |-> recovery.types,
              warnings |-> res.warnings, errors |-> res.errors]
        ELSE [type_id |-> res.value[1], types |-> tbl,
              warnings |-> res.warnings, errors |-> res.errors]

\* A mutant: the mutability rule is not applied.
type_check_without_rule(tbl, ns, self_type, w, parameter) ==
    LET interned == insert_type(tbl, parameter.type_info)
        checked == check_resolve_type(interned.types, interned.id, self_type, w)
        typed_parameter ==
            TypedFunctionParameter(parameter, checked.type_id, interned.id)
    IN  [value |-> <<typed_parameter>>, warnings |-> checked.warnings,
         errors |-> checked.errors, types |-> checked.types,
         namespace |-> insert_into_namespace(ns, typed_parameter)]

\* A mutant: the parameter is bound before the mutability rule is applied,
\* and the rule's failure starts from fresh diagnostics.
type_check_binds_first(tbl, ns, self_type, w, parameter) ==
    LET interned == insert_type(tbl, parameter.type_info)
        checked == check_resolve_type(interned.types, interned.id, self_type, w)
        mutability == convert_to_variable_immutability(
                          parameter.is_reference, parameter.is_mutable)
        typed_parameter ==
            TypedFunctionParameter(parameter, checked.type_id, interned.id)
    IN  IF mutability = "Mutable"
        THEN [value |-> <<>>, warnings |-> <<>>,
              errors |-> <<MutableParameterNotSupported(parameter.name)>>,
              types |-> checked.types,
              namespace |-> insert_into_namespace(ns, typed_parameter)]
        ELSE [value |-> <<typed_parameter>>, warnings |-> checked.warnings,
              errors |-> checked.errors, types |-> checked.types,
              namespace |-> insert_into_namespace(ns, typed_parameter)]

type_check(tbl, ns, self_type, w, parameter) ==
    LET interned == insert_type(tbl, parameter.type_info)
        initial_type_id == interned.id
        checked == check_resolve_type(interned.types, initial_type_id,
                                      self_type, w)
        mutability == convert_to_variable_immutability(
                          parameter.is_reference, parameter.is_mutable)
        typed_parameter ==
            TypedFunctionParameter(parameter, checked.type_id, initial_type_id)
    IN  IF mutability = "Mutable"
        THEN [value |-> <<>>, warnings |-> checked.warnings,
              errors |-> Append(checked.errors,
                                MutableParameterNotSupported(parameter.name)),
              types |-> checked.types, namespace |-> ns]
        ELSE [value |-> <<typed_parameter>>, warnings |-> checked.warnings,
              errors |-> checked.errors, types |-> checked.types,
              namespace |-> insert_into_namespace(ns, typed_parameter)]

type_check_method_parameter(tbl, ns, self_type, w, parameter) ==
    LET interned == insert_type(tbl, parameter.type_info)
        initial_type_id == interned.id
        checked == check_resolve_type(interned.types, initial_type_id,
                                      self_type, w)
        typed_parameter ==
            TypedFunctionParameter(parameter, checked.type_id, initial_type_id)
    IN  [value |-> <<typed_parameter>>, warnings |-> checked.warnings,
         errors |-> checked.errors, types |-> checked.types,
         namespace |-> insert_into_namespace(ns, typed_parameter)]

\* A mutant: the interface parameter is bound like a method parameter.
type_check_interface_parameter_binds(tbl, ns, w, parameter) ==
    LET interned == insert_type(tbl, parameter.type_info)
        placeholder == insert_type(interned.types, "SelfType")
        checked == check_resolve_type(placeholder.types, interned.id,
                                      placeholder.id, w)
        typed_parameter ==
            TypedFunctionParameter(parameter, checked.type_id, interned.id)
    IN  [value |-> <<typed_parameter>>, warnings |-> checked.warnings,
         errors |-> checked.errors, types |-> checked.types,
         namespace |-> insert_into_namespace(ns, typed_parameter)]

\* A mutant: the interface parameter is resolved with no self type bound.
type_check_interface_parameter_no_self(tbl, ns, w, parameter) ==
    LET interned == insert_type(tbl, parameter.type_info)
        placeholder == insert_type(interned.types, "SelfType")
        checked == check_resolve_type(placeholder.types, interned.id,
                                      NoSelf, w)
        typed_parameter ==
            TypedFunctionParameter(parameter, checked.type_id, interned.id)
    IN  [value |-> <<typed_parameter>>, warnings |-> checked.warnings,
         errors |-> checked.errors, types |-> checked.types,
         namespace |-> ns]

type_check_interface_parameter(tbl, ns, w, parameter) ==
    LET interned == insert_type(tbl, parameter.type_info)
        initial_type_id == interned.id
        placeholder == insert_type(interned.types, "SelfType")
        checked == check_resolve_type(placeholder.types, initial_type_id,
                                      placeholder.id, w)
        typed_parameter ==
            TypedFunctionParameter(parameter, checked.type_id, initial_type_id)
    IN  [value |-> <<typed_parameter>>, warnings |-> checked.warnings,
         errors |-> checked.errors, types |-> checked.types,
         namespace |-> ns]

(* ------------------------------- inputs ------------------------------- *)

FunctionParameters ==
    UNION {{[name |-> n, is_reference |-> r, is_mutable |-> m,
             mutability_span |-> MutabilitySpanOf(n), type_info |-> t,
             type_span |-> TypeSpanOf(n)] :
               r \in BOOLEAN, m \in BOOLEAN, t \in WrittenTypesOf(n)} :
           n \in Names}

\* A context binds self to the enclosing type, or to nothing.
SelfTypes == {NoSelf, IndexOf(InitTypes, "Struct_S")}

IdsOf(tbl, kinds) == {i \in 1..Len(tbl) : tbl[i] \in kinds}

\* Type mappings of a monomorphization: type variables to the primitive.
TypeMappings(tbl) ==
    UNION {[D -> IdsOf(tbl, {"u32"})] : D \in SUBSET IdsOf(tbl, TypeVariables)}

NoMapping == <<>>

NoParameter ==
    [name |-> "", is_reference |-> FALSE, is_mutable |-> FALSE,
     mutability_span |-> "", type_info |-> "", type_span |-> ""]

(* ---------------------------- state machine --------------------------- *)

Init ==
    /\ types = InitTypes
    /\ namespace = [n \in Names |-> <<>>]
    /\ call = [op |-> "none", self_type |-> NoSelf, warnings |-> <<>>,
               parameter |-> NoParameter, type_mapping |-> NoMapping]
    /\ result = [value |-> <<>>, warnings |-> <<>>, errors |-> <<>>]
    /\ lhs = <<>>
    /\ rhs = <<>>
    /\ eq_result = <<>>

Returned(op, self_type, w, parameter, r) ==
    /\ types' = r.types
    /\ namespace' = r.namespace
    /\ result' = [value |-> r.value, warnings |-> r.warnings,
                  errors |-> r.errors]
    /\ call' = [op |-> op, self_type |-> self_type, warnings |-> w,
                parameter |-> parameter, type_mapping |-> NoMapping]
    /\ UNCHANGED <<lhs, rhs, eq_result>>

TypeCheck ==
    \E self_type \in SelfTypes, w \in ResolverWarnings,
       parameter \in FunctionParameters :
        Returned("type_check", self_type, w, parameter,
                 type_check(types, namespace, self_type, w, parameter))

TypeCheckMethodParameter ==
    \E self_type \in SelfTypes, w \in ResolverWarnings,
       parameter \in FunctionParameters :
        Returned("type_check_method_parameter", self_type, w, parameter,
                 type_check_method_parameter(types, namespace, self_type, w,
                                             parameter))

TypeCheckInterfaceParameter ==
    \E w \in ResolverWarnings, parameter \in FunctionParameters :
        Returned("type_check_interface_parameter", NoSelf, w, parameter,
                 type_check_interface_parameter(types, namespace, w,
                                                parameter))

CopyTypes ==
    /\ result.value # <<>>
    /\ \E type_mapping \in TypeMappings(types) :
        /\ result' = [result EXCEPT
                        !.value = <<copy_types(result.value[1], type_mapping)>>]
        /\ call' = [call EXCEPT !.op = "copy_types",
                                !.type_mapping = type_mapping]
    /\ UNCHANGED <<types, namespace, lhs, rhs, eq_result>>

Next ==
    \/ TypeCheck
    \/ TypeCheckMethodParameter
    \/ TypeCheckInterfaceParameter
    \/ CopyTypes

Spec == Init /\ [][Next]_vars

(* --------------------- comparison of two parameters ------------------- *)

\* Typed parameters over the types interned at the start.
TypedParameters ==
    [name : Names, is_reference : BOOLEAN, is_mutable : BOOLEAN,
     mutability_span : {MutabilitySpanOf(n) : n \in Names},
     type_id : 1..Len(InitTypes),
     initial_type_id : {IndexOf(InitTypes, "T")},
     type_span : {TypeSpanOf(n) : n \in Names}]

InitEq ==
    /\ types = InitTypes
    /\ namespace = [n \in Names |-> <<>>]
    /\ call = [op |-> "none", self_type |-> NoSelf, warnings |-> <<>>,
               parameter |-> NoParameter, type_mapping |-> NoMapping]
    /\ result = [value |-> <<>>, warnings |-> <<>>, errors |-> <<>>]
    /\ lhs \in {<<p>> : p \in TypedParameters}
    /\ rhs \in {<<p>> : p \in TypedParameters}
    /\ eq_result = <<>>

Compare ==
    /\ eq_result = <<>>
    /\ eq_result' = <<eq(types, lhs[1], rhs[1])>>
    /\ call' = [call EXCEPT !.op = "eq"]
    /\ UNCHANGED <<types, namespace, result, lhs, rhs>>

NextEq == Compare

SpecEq == InitEq /\ [][NextEq]_vars

(* ------------------------- vocabulary of the claims ------------------- *)

Checkers == {"type_check", "type_check_method_parameter",
             "type_check_interface_parameter"}

ResolutionErrors == {"SelfOutsideImplementation", "UnknownType"}

\* The self type the latest check resolved with, over the table tbl.
SelfOfCall(tbl, c) ==
    IF c.op = "type_check_interface_parameter" THEN IndexOf(tbl, "SelfType")
    ELSE c.self_type

\* What resolving the as-written type of the latest check gives, over the
\* table tbl the check left behind.
ResolutionOfCall(tbl, c) ==
    resolve_type_with_self(tbl, IndexOf(tbl, c.parameter.type_info),
                           SelfOfCall(tbl, c), TRUE, c.warnings)

RuleApplies(c) ==
    /\ c.op = "type_check"
    /\ convert_to_variable_immutability(c.parameter.is_reference,
                                        c.parameter.is_mutable) = "Mutable"

KindCount(errors, kind) ==
    Cardinality({i \in 1..Len(errors) : errors[i].kind = kind})

(* --------------------------------- C1 --------------------------------- *)

\* C1: in each of the three checkers (type_check only when the computed
\* mutability is not Mutable), a failed resolution of the as-written type
\* still returns a TypedFunctionParameter, whose type_id is the identity of
\* ErrorRecovery, with exactly one error, the resolution's.
C1_GracefulDegradation ==
    (/\ call.op \in Checkers
     /\ ~RuleApplies(call)
     /\ ResolutionOfCall(types, call).value = <<>>)
    => /\ result.value # <<>>
       /\ look_up_type_id(types, result.value[1].type_id) = "ErrorRecovery"
       /\ result.value[1].type_id = insert_type(types, "ErrorRecovery").id
       /\ Len(result.errors) = 1
       /\ result.errors = ResolutionOfCall(types, call).errors
       /\ result.errors[1].kind \in ResolutionErrors

C1_Witness ==
    /\ call.op = "type_check"
    /\ call.parameter.type_info = "Custom_Undef"
    /\ call.parameter.is_reference
    /\ result.value # <<>>
    /\ Len(result.errors) = 1

(* --------------------------------- C2 --------------------------------- *)

\* C2: whatever the types interned and the bindings in scope, type_check of
\* a parameter with is_mutable and not is_reference returns no
\* TypedFunctionParameter and exactly one MutableParameterNotSupported error,
\* naming the parameter; type_check_method_parameter of the same parameter in
\* the same context returns one and no such error.
C2_MutabilityRule ==
    \A parameter \in FunctionParameters, self_type \in SelfTypes,
       w \in ResolverWarnings :
        (parameter.is_mutable /\ ~parameter.is_reference) =>
            LET free == type_check(types, namespace, self_type, w, parameter)
                method == type_check_method_parameter(types, namespace,
                                                      self_type, w, parameter)
            IN  /\ free.value = <<>>
                /\ KindCount(free.errors, "MutableParameterNotSupported") = 1
                /\ \A i \in 1..Len(free.errors) :
                       free.errors[i].kind = "MutableParameterNotSupported"
                           => free.errors[i].param_name = parameter.name
                /\ method.value # <<>>
                /\ KindCount(method.errors,
                             "MutableParameterNotSupported") = 0

C2_Witness ==
    /\ call.op = "type_check"
    /\ call.parameter.is_mutable
    /\ ~call.parameter.is_reference
    /\ result.value = <<>>
    /\ namespace[call.parameter.name] # <<>>
    /\ namespace[call.parameter.name][1].mutability = "Mutable"

(* --------------------------------- C3 --------------------------------- *)

\* C3 as claimed: a parameter written with the self type and checked by
\* type_check fails with SelfOutsideImplementation and, when returned, has
\* the ErrorRecovery type, whatever self type the context carries.
C3_FreeSelfAlwaysFails ==
    (call.op = "type_check" /\ call.parameter.type_info = "SelfType")
    => /\ KindCount(result.errors, "SelfOutsideImplementation") = 1
       /\ result.value # <<>> =>
            look_up_type_id(types, result.value[1].type_id) = "ErrorRecovery"

\* C3 amended: a parameter written with the self type (a) checked by
\* type_check with a context that binds no self type fails with
\* SelfOutsideImplementation and, when returned, has the ErrorRecovery type,
\* while with a context that binds a self type type_check resolves it to
\* that type, as type_check_method_parameter does; (b) checked by
\* type_check_method_parameter is resolved to the enclosing type the context
\* binds; (c) checked by type_check_interface_parameter is resolved to the
\* identity of the SelfType placeholder, which no concrete type has.
C3_SelfResolution ==
    (call.op \in Checkers /\ call.parameter.type_info = "SelfType") =>
        /\ (call.op = "type_check" /\ call.self_type = NoSelf)
           => /\ KindCount(result.errors, "SelfOutsideImplementation") = 1
              /\ result.value # <<>> =>
                   look_up_type_id(types, result.value[1].type_id)
                       = "ErrorRecovery"
        /\ (call.op = "type_check" /\ call.self_type # NoSelf)
           => /\ KindCount(result.errors, "SelfOutsideImplementation") = 0
              /\ result.value # <<>> =>
                   result.value[1].type_id = call.self_type
        /\ (call.op = "type_check_method_parameter"
            /\ call.self_type # NoSelf)
           => /\ result.errors = <<>>
              /\ result.value # <<>>
              /\ result.value[1].type_id = call.self_type
        /\ call.op = "type_check_interface_parameter"
           => /\ result.errors = <<>>
              /\ result.value # <<>>
              /\ result.value[1].type_id = insert_type(types, "SelfType").id
              /\ look_up_type_id(types, result.value[1].type_id) = "SelfType"
              /\ result.value[1].type_id \notin IdsOf(types, ConcreteTypes)

C3_Witness ==
    /\ call.op = "type_check"
    /\ call.parameter.type_info = "SelfType"
    /\ call.self_type # NoSelf
    /\ result.value # <<>>
    /\ look_up_type_id(types, result.value[1].type_id) = "Struct_S"

(* --------------------------------- C4 --------------------------------- *)

\* C4: a call of type_check or type_check_method_parameter that returns a
\* TypedFunctionParameter binds that parameter's name, and leaves the binding
\* of every other name as it was; a call of type_check_interface_parameter
\* leaves every binding as it was.
C4_NamespaceInsertion ==
    [][/\ (call'.op \in {"type_check", "type_check_method_parameter"}
           /\ result'.value # <<>>)
          => /\ namespace'[call'.parameter.name] # <<>>
             /\ namespace'[call'.parameter.name][1].name
                    = call'.parameter.name
             /\ namespace'[call'.parameter.name][1].type_ascription
                    = result'.value[1].type_id
             /\ \A n \in Names \ {call'.parameter.name} :
                    namespace'[n] = namespace[n]
       /\ call'.op = "type_check_interface_parameter"
          => namespace' = namespace]_vars

C4_Witness ==
    /\ call.op = "type_check_interface_parameter"
    /\ result.value # <<>>
    /\ namespace[call.parameter.name] # <<>>
    /\ namespace[call.parameter.name][1].type_ascription
           # result.value[1].type_id
    /\ \E n \in Names : namespace[n] = <<>>

(* --------------------------------- C5 --------------------------------- *)

\* C5 as claimed: every binding made for a parameter is an immutable
\* variable declared with the parameter's resolved type.
C5_BindingImmutable ==
    \A n \in Names :
        namespace[n] # <<>> => namespace[n][1].mutability = "Immutable"

\* C5 amended: the binding made for a parameter is a variable whose
\* mutability is what convert_to_variable_immutability gives for the
\* parameter's is_reference and is_mutable (Immutable for a parameter with
\* neither, Mutable for a by-value mut parameter of a method, never Mutable
\* when type_check made it), and whose type_ascription and return_type are
\* the parameter's type_id, the ErrorRecovery identity included.
C5_SymbolTableBinding ==
    (call.op \in {"type_check", "type_check_method_parameter"}
     /\ result.value # <<>>) =>
        LET p == result.value[1]
            decl == namespace[p.name][1]
        IN  /\ namespace[p.name] # <<>>
            /\ decl.type_ascription = p.type_id
            /\ decl.return_type = p.type_id
            /\ decl.type_ascription_span = p.type_span
            /\ decl.mutability = convert_to_variable_immutability(
                                     p.is_reference, p.is_mutable)
            /\ (~p.is_reference /\ ~p.is_mutable)
                   => decl.mutability = "Immutable"
            /\ (~p.is_reference /\ p.is_mutable)
                   => decl.mutability = "Mutable"
            /\ call.op = "type_check" => decl.mutability # "Mutable"
            /\ ResolutionOfCall(types, call).value = <<>>
                   => look_up_type_id(types, decl.type_ascription)
                          = "ErrorRecovery"

C5_Witness ==
    /\ call.op = "type_check_method_parameter"
    /\ result.value # <<>>
    /\ result.value[1].is_mutable
    /\ ~result.value[1].is_reference
    /\ namespace[result.value[1].name][1].mutability = "Mutable"
    /\ look_up_type_id(types, namespace[result.value[1].name][1].type_ascription)
           = "ErrorRecovery"

(* --------------------------------- C6 --------------------------------- *)

\* C6: the parameter a checker returned keeps, through the resolution and
\* through every copy_types after it, the identity of its as-written type as
\* initial_type_id, and the name, flags and spans it was written with.
C6_AsWrittenPreserved ==
    result.value # <<>> =>
        LET p == result.value[1]
        IN  /\ p.initial_type_id
                   = insert_type(types, call.parameter.type_info).id
            /\ look_up_type_id(types, p.initial_type_id)
                   = call.parameter.type_info
            /\ p.name = call.parameter.name
            /\ p.is_reference = call.parameter.is_reference
            /\ p.is_mutable = call.parameter.is_mutable
            /\ p.mutability_span = call.parameter.mutability_span
            /\ p.type_span = call.parameter.type_span

C6_Witness ==
    /\ call.op = "copy_types"
    /\ call.type_mapping # NoMapping
    /\ result.value # <<>>
    /\ look_up_type_id(types, result.value[1].initial_type_id) = "T"
    /\ look_up_type_id(types, result.value[1].type_id) = "u32"

(* --------------------------------- C7 --------------------------------- *)

\* C7: copy_types sets type_id to the identity the mapping gives for it,
\* leaves it as it is when the mapping has no entry for it, and has no
\* failure outcome: the parameter is still there and no error is added.
C7_GenericSubstitution ==
    [][call'.op = "copy_types" =>
          /\ result.value # <<>>
          /\ result'.value # <<>>
          /\ result'.errors = result.errors
          /\ result'.warnings = result.warnings
          /\ LET old == result.value[1].type_id
                 new == result'.value[1].type_id
             IN  IF old \in DOMAIN call'.type_mapping
                 THEN new = call'.type_mapping[old]
                 ELSE new = old]_vars

C7_Witness ==
    /\ call.op = "copy_types"
    /\ result.value # <<>>
    /\ IndexOf(types, "T") \in DOMAIN call.type_mapping
    /\ call.type_mapping[IndexOf(types, "T")] = IndexOf(types, "u32")
    /\ call.parameter.type_info = "T"
    /\ result.value[1].type_id = IndexOf(types, "u32")

(* --------------------------------- C8 --------------------------------- *)

WithSpans(p, mutability_span, type_span) ==
    [p EXCEPT !.mutability_span = mutability_span, !.type_span = type_span]

TypeInfos == WrittenTypes \cup ConcreteTypes \cup {"ErrorRecovery"}

IsPrefix(s, t) == Len(s) <= Len(t) /\ \A i \in 1..Len(s) : t[i] = s[i]

\* Interning over tbl: equal TypeInfo, equal TypeId; what was interned is
\* what is looked up; no entry of tbl is removed or changed.
Interns(tbl) ==
    /\ \A i, j \in 1..Len(tbl) : tbl[i] = tbl[j] => i = j
    /\ \A ty \in TypeInfos :
          LET first == insert_type(tbl, ty)
              second == insert_type(first.types, ty)
          IN  /\ first.id = second.id
              /\ look_up_type_id(second.types, first.id) = ty
              /\ IsPrefix(tbl, first.types)
              /\ IsPrefix(first.types, second.types)

\* The identities the checkers handed out for one TypeInfo are one identity.
OneIdentityEach ==
    \A n \in Names :
        (/\ namespace[n] # <<>>
         /\ result.value # <<>>
         /\ look_up_type_id(types, namespace[n][1].type_ascription)
                = look_up_type_id(types, result.value[1].type_id))
        => namespace[n][1].type_ascription = result.value[1].type_id

\* C9: through every sequence of checks interning two equal TypeInfo gives
\* one TypeId, looking up an interned TypeId gives the TypeInfo interned, the
\* ErrorRecovery and SelfType identities the checkers hand out are one
\* identity each, and no entry of the table is removed or changed.
C9_InterningDeterminism ==
    /\ [](Interns(types) /\ OneIdentityEach)
    /\ [][IsPrefix(types, types')]_vars

C9_Witness ==
    /\ call.op = "type_check_interface_parameter"
    /\ result.value # <<>>
    /\ look_up_type_id(types, result.value[1].type_id) = "ErrorRecovery"
    /\ \E n \in Names :
          /\ namespace[n] # <<>>
          /\ namespace[n][1].type_ascription = result.value[1].type_id
    /\ Len(types) = Len(InitTypes) + 3

(* --------------------------------- C10 -------------------------------- *)

\* C10: when type_check fails with MutableParameterNotSupported every
\* binding is as it was, and the warnings and errors of the resolution are
\* returned, the errors before the MutableParameterNotSupported error.
C10_RejectedParameter ==
    [][(call'.op = "type_check" /\ result'.value = <<>>) =>
          /\ namespace' = namespace
          /\ result'.warnings = ResolutionOfCall(types', call').warnings
          /\ result'.errors =
                 Append(ResolutionOfCall(types', call').errors,
                        MutableParameterNotSupported(call'.parameter.name))
      ]_vars

C10_Witness ==
    /\ call.op = "type_check"
    /\ result.value = <<>>
    /\ Len(result.warnings) = 1
    /\ Len(result.errors) = 2
    /\ result.errors[1].kind = "UnknownType"
    /\ result.errors[2].kind = "MutableParameterNotSupported"
    /\ namespace[call.parameter.name] # <<>>

====
